---- MODULE Spec2Model ----
(***************************************************************************)
(* Image_translator: the line merger (text_process.merge_text_lines), the  *)
(* colour inference (color_process) and the ordered parallel translation   *)
(* (translate_api.parallel_translate).                                     *)
(***************************************************************************)
EXTENDS Integers, Sequences, FiniteSets, TLC

VARIABLES
    ocr_results,      \* merge_text_lines: the argument
    sorted_results,   \* merge_text_lines: the sorted copy (line 18)
    paragraphs,       \* merge_text_lines: the growing list of paragraphs
    idx,              \* merge_text_lines: position of the for loop of line 21
    pc,               \* merge_text_lines: "start" | "loop" | "done" | "raised"
    ret,              \* merge_text_lines: the returned list (None until it returns)
    image,            \* color_process: the image argument (width, height, pixels)
    location,         \* color_process: the location argument
    bg_color,         \* get_text_color: the bg_color argument (None when not given)
    color_op,         \* color_process: the function called ("none" before the call)
    color_ret,        \* color_process: the colour returned and the line returning it
    tr_paragraphs,    \* parallel_translate: the paragraphs argument
    max_workers,      \* parallel_translate: the max_workers argument
    futures,          \* executor.map: one future per paragraph, in submission order
    queue,            \* the executor's work queue: indices of the tasks not yet taken
    worker,           \* per worker thread: the task it runs, 0 when it is idle
    failed,           \* the tasks whose deepseek_translate call raised
    translations,     \* the list built from the result iterator
    tr_pc             \* parallel_translate: "submit" | "collect" | "done"

mergeVars == <<ocr_results, sorted_results, paragraphs, idx, pc, ret>>

colorVars == <<image, location, bg_color, color_op, color_ret>>

translateVars ==
    <<tr_paragraphs, max_workers, futures, queue, worker, failed, translations, tr_pc>>

vars == <<ocr_results, sorted_results, paragraphs, idx, pc, ret,
          image, location, bg_color, color_op, color_ret,
          tr_paragraphs, max_workers, futures, queue, worker, failed, translations,
          tr_pc>>

None == "None"

-----------------------------------------------------------------------------
(* Bounds of the line merger's inputs.                                     *)

MaxFrags == 3

TopValues == {0, 2}
LeftValues == {0, 2}
WidthValues == {0, 2}
HeightValues == {0, 1}
WordValues == {"a"}

Fields == {"left", "top", "width", "height"}

\* OCR records whose location has the four fields, all non-negative.
WellFormedFragments ==
    { [words |-> w,
       location |-> [left |-> l, top |-> t, width |-> wd, height |-> h]] :
         w \in WordValues, l \in LeftValues, t \in TopValues,
         wd \in WidthValues, h \in HeightValues }

BaseFragment ==
    [words |-> "a", location |-> [left |-> 2, top |-> 2, width |-> 2, height |-> 1]]

\* The base record with one location field missing, or with a negative
\* width or height.
MalformedFragments ==
    { [BaseFragment EXCEPT
         !.location = [f \in Fields \ {g} |-> BaseFragment.location[f]]] : g \in Fields }
    \cup { [BaseFragment EXCEPT !.location.width = -1],
           [BaseFragment EXCEPT !.location.height = -1] }

Fragments == WellFormedFragments \cup MalformedFragments

SeqsUpTo(S, n) == UNION { [1..k -> S] : k \in 0..n }

-----------------------------------------------------------------------------
(* merge_text_lines                                                        *)

max_line_gap == 2
max_x_diff == 1

HasField(res, f) == f \in DOMAIN res.location

\* The key is the top alone.
KeyLess_TopOnly(a, b) == a.location.top < b.location.top

\* key=lambda x: (x['location']['top'], x['location']['left']), compared as tuples
KeyLess(a, b) ==
    \/ a.location.top < b.location.top
    \/ /\ a.location.top = b.location.top
       /\ a.location.left < b.location.left

\* sorted() is stable: an element goes after every element whose key is not greater.
RECURSIVE InsertStable(_, _)
InsertStable(s, x) ==
    IF s = <<>> THEN <<x>>
    ELSE IF KeyLess(x, Head(s)) THEN <<x>> \o s
    ELSE <<Head(s)>> \o InsertStable(Tail(s), x)

RECURSIVE sorted(_)
sorted(s) ==
    IF s = <<>> THEN <<>>
    ELSE InsertStable(sorted(SubSeq(s, 1, Len(s) - 1)), s[Len(s)])

Abs(x) == IF x < 0 THEN -x ELSE x

Last(s) == s[Len(s)]

\* The tolerance is scaled by the height of the paragraph's last fragment.
VerticalOk_LastHeight(last, res) ==
    LET last_bottom == last.location.top + last.location.height
    IN  (res.location.top - last_bottom) <= last.location.height * max_line_gap

\* (top - last_bottom) <= height * max_line_gap, with the height of the
\* fragment being placed (line 33, first conjunct)
VerticalOk(last, res) ==
    LET last_bottom == last.location.top + last.location.height
    IN  (res.location.top - last_bottom) <= res.location.height * max_line_gap

\* abs(left - last_left) <= max_x_diff or abs(mid - last_mid) <= max_x_diff * width
\* (line 33, second conjunct); mid and last_mid are (left * 2 + width) / 2, a true
\* division, so both sides are doubled here to stay in the integers.
HorizontalOk(last, res) ==
    LET left == res.location.left
        last_left == last.location.left
        mid2 == left * 2 + res.location.width
        last_mid2 == last_left * 2 + last.location.width
    IN  \/ Abs(left - last_left) <= max_x_diff
        \/ Abs(mid2 - last_mid2) <= 2 * max_x_diff * res.location.width

Accepts(para, res) ==
    VerticalOk(Last(para.res), res) /\ HorizontalOk(Last(para.res), res)

\* The inner for loop of lines 26-36 from paragraph k on: append to the first
\* paragraph that accepts and break; lines 38-39 when the loop runs out. (The
\* test of line 27 never skips: a paragraph is a dict holding the key 'res'.)
RECURSIVE PlaceFrom(_, _, _)
PlaceFrom(paras, res, k) ==
    IF k > Len(paras) THEN Append(paras, [res |-> <<res>>])
    ELSE IF Accepts(paras[k], res)
         THEN [paras EXCEPT ![k].res = Append(@, res)]
         ELSE PlaceFrom(paras, res, k + 1)

\* A paragraph that accepts is overwritten instead of extended.
RECURSIVE PlaceFrom_Overwrite(_, _, _)
PlaceFrom_Overwrite(paras, res, k) ==
    IF k > Len(paras) THEN Append(paras, [res |-> <<res>>])
    ELSE IF Accepts(paras[k], res)
         THEN [paras EXCEPT ![k].res = <<res>>]
         ELSE PlaceFrom_Overwrite(paras, res, k + 1)

Place_Overwrite(paras, res) == PlaceFrom_Overwrite(paras, res, 1)

\* The paragraphs are scanned from the newest to the oldest.
RECURSIVE PlaceFrom_LastFit(_, _, _)
PlaceFrom_LastFit(paras, res, k) ==
    IF k < 1 THEN Append(paras, [res |-> <<res>>])
    ELSE IF Accepts(paras[k], res)
         THEN [paras EXCEPT ![k].res = Append(@, res)]
         ELSE PlaceFrom_LastFit(paras, res, k - 1)

Place_LastFit(paras, res) == PlaceFrom_LastFit(paras, res, Len(paras))

Place(paras, res) == PlaceFrom(paras, res, 1)

RECURSIVE PlaceAll(_, _)
PlaceAll(paras, rs) ==
    IF rs = <<>> THEN paras ELSE PlaceAll(Place(paras, Head(rs)), Tail(rs))

\* lines 41-45: words += res['words'] + '\n'
RECURSIVE JoinWords(_)
JoinWords(rs) ==
    IF rs = <<>> THEN ""
    ELSE JoinWords(SubSeq(rs, 1, Len(rs) - 1)) \o rs[Len(rs)].words \o "\n"

WithWords(paras) ==
    [k \in 1..Len(paras) |-> [res |-> paras[k].res, words |-> JoinWords(paras[k].res)]]

\* The whole call on records that all have the four fields (lines 14-47).
merge_text_lines(rs) ==
    IF rs = <<>> THEN <<>> ELSE WithWords(PlaceAll(<<>>, sorted(rs)))

MergeIdle ==
    /\ ocr_results = <<>>
    /\ sorted_results = <<>>
    /\ paragraphs = <<>>
    /\ idx = 0
    /\ pc = "idle"
    /\ ret = None

ColorIdle ==
    /\ image = None
    /\ location = None
    /\ bg_color = None
    /\ color_op = "idle"
    /\ color_ret = None

TranslateIdle ==
    /\ tr_paragraphs = <<>>
    /\ max_workers = 0
    /\ futures = <<>>
    /\ queue = <<>>
    /\ worker = <<>>
    /\ failed = {}
    /\ translations = <<>>
    /\ tr_pc = "idle"

InitMerge ==
    /\ ocr_results \in SeqsUpTo(Fragments, MaxFrags)
    /\ sorted_results = <<>>
    /\ paragraphs = <<>>
    /\ idx = 0
    /\ pc = "start"
    /\ ret = None
    /\ ColorIdle
    /\ TranslateIdle

\* lines 14-15
ReturnEmpty ==
    /\ pc = "start"
    /\ ocr_results = <<>>
    /\ ret' = <<>>
    /\ pc' = "done"
    /\ UNCHANGED <<ocr_results, sorted_results, paragraphs, idx, colorVars, translateVars>>

\* lines 18-19
Sort ==
    /\ pc = "start"
    /\ ocr_results # <<>>
    /\ \A i \in 1..Len(ocr_results) :
          HasField(ocr_results[i], "top") /\ HasField(ocr_results[i], "left")
    /\ sorted_results' = sorted(ocr_results)
    /\ paragraphs' = <<>>
    /\ idx' = 1
    /\ pc' = "loop"
    /\ UNCHANGED <<ocr_results, ret, colorVars, translateVars>>

\* line 18: the key function raises KeyError on a record without top or left
SortRaise ==
    /\ pc = "start"
    /\ ocr_results # <<>>
    /\ \E i \in 1..Len(ocr_results) :
          ~ (HasField(ocr_results[i], "top") /\ HasField(ocr_results[i], "left"))
    /\ pc' = "raised"
    /\ UNCHANGED <<ocr_results, sorted_results, paragraphs, idx, ret, colorVars, translateVars>>

\* lines 21-39, one iteration of the outer loop
PlaceNext ==
    /\ pc = "loop"
    /\ idx <= Len(sorted_results)
    /\ \A f \in Fields : HasField(sorted_results[idx], f)
    /\ paragraphs' = Place(paragraphs, sorted_results[idx])
    /\ idx' = idx + 1
    /\ UNCHANGED <<ocr_results, sorted_results, pc, ret, colorVars, translateVars>>

\* line 23: KeyError on a record without height or width
PlaceRaise ==
    /\ pc = "loop"
    /\ idx <= Len(sorted_results)
    /\ \E f \in Fields : ~ HasField(sorted_results[idx], f)
    /\ pc' = "raised"
    /\ UNCHANGED <<ocr_results, sorted_results, paragraphs, idx, ret, colorVars, translateVars>>

\* lines 41-47
Return ==
    /\ pc = "loop"
    /\ idx > Len(sorted_results)
    /\ paragraphs' = WithWords(paragraphs)
    /\ ret' = WithWords(paragraphs)
    /\ pc' = "done"
    /\ UNCHANGED <<ocr_results, sorted_results, idx, colorVars, translateVars>>

NextMerge ==
    \/ ReturnEmpty
    \/ Sort
    \/ SortRaise
    \/ PlaceNext
    \/ PlaceRaise
    \/ Return

SpecMerge == InitMerge /\ [][NextMerge]_vars

-----------------------------------------------------------------------------
(* Properties of merge_text_lines, checked under SpecMerge                 *)

RECURSIVE SumLens(_)
SumLens(paras) ==
    IF paras = <<>> THEN 0 ELSE Len(Head(paras).res) + SumLens(Tail(paras))

Count(s, f) == Cardinality({ i \in 1..Len(s) : s[i] = f })

RECURSIVE CountIn(_, _)
CountIn(paras, f) ==
    IF paras = <<>> THEN 0 ELSE Count(Head(paras).res, f) + CountIn(Tail(paras), f)

Range(s) == { s[i] : i \in 1..Len(s) }

\* C1: the paragraphs returned for a non-empty input partition it: no paragraph
\* is empty, the fragment counts add up to the input count, and every input
\* fragment occurs in the paragraphs as often as in the input (and nothing else
\* occurs in them).
C1_Partition ==
    (pc = "done" /\ ocr_results # <<>>) =>
        /\ \A k \in 1..Len(ret) : ret[k].res # <<>>
        /\ SumLens(ret) = Len(ocr_results)
        /\ \A f \in Fragments : CountIn(ret, f) = Count(ocr_results, f)

C1_Witness ==
    /\ pc = "done"
    /\ Len(ocr_results) = 3
    /\ Len(ret) = 2
    /\ ocr_results[1] = ocr_results[3]

Orderings(s) ==
    { [i \in 1..Len(s) |-> s[p[i]]] :
        p \in { q \in [1..Len(s) -> 1..Len(s)] :
                  \A i, j \in 1..Len(s) : q[i] = q[j] => i = j } }

\* C2 as stated: every ordering of the input gives the same paragraphs, the same
\* order inside each paragraph and the same paragraph order.
C2_OrderIndependent ==
    pc = "done" =>
        \A perm \in Orderings(ocr_results) : merge_text_lines(perm) = ret

SameKey(a, b) ==
    a.location.top = b.location.top /\ a.location.left = b.location.left

DistinctKeys(s) ==
    \A i, j \in 1..Len(s) : (s[i] # s[j]) => ~ SameKey(s[i], s[j])

\* C2 amended: when no two different fragments of the input share (top, left),
\* every ordering of the input gives the same paragraphs, the same order inside
\* each paragraph and the same paragraph order.
C2_OrderIndependentDistinctKeys ==
    (pc = "done" /\ DistinctKeys(ocr_results)) =>
        \A perm \in Orderings(ocr_results) : merge_text_lines(perm) = ret

C2_Witness ==
    /\ pc = "done"
    /\ DistinctKeys(ocr_results)
    /\ Len(ocr_results) = 3
    /\ Cardinality(Range(ocr_results)) = 3
    /\ ocr_results # sorted_results
    /\ Len(ret) = 2

Malformed(res) ==
    \/ \E f \in Fields : ~ HasField(res, f)
    \/ HasField(res, "width") /\ res.location.width < 0
    \/ HasField(res, "height") /\ res.location.height < 0

\* C3: a call whose input holds a fragment with a missing location field or a
\* negative width or height never returns a paragraph list.
C3_MalformedRejected ==
    (\E i \in 1..Len(ocr_results) : Malformed(ocr_results[i])) =>
        pc # "done"

\* One iteration of the outer loop of merge_text_lines.
IsPlaceStep == pc = "loop" /\ pc' = "loop" /\ idx' = idx + 1

JoinedAt(k) ==
    /\ Len(paragraphs') = Len(paragraphs)
    /\ paragraphs'[k].res = Append(paragraphs[k].res, sorted_results[idx])

StartedNew == Len(paragraphs') = Len(paragraphs) + 1

\* The vertical gap test with the tolerance scaled by the last fragment's height.
GapTestLastHeight(last, res) ==
    (res.location.top - (last.location.top + last.location.height))
        <= last.location.height * 2

\* The vertical gap test with the tolerance scaled by the placed fragment's height.
GapTestOwnHeight(last, res) ==
    (res.location.top - (last.location.top + last.location.height))
        <= res.location.height * 2

\* What a placement step does when `test` is the vertical gap test: the paragraph
\* joined passes it, and every paragraph passed over (all of them when a new
\* paragraph is started) fails it or fails the horizontal test.
DecidedBy(test(_, _)) ==
    LET res == sorted_results[idx]
        pass(k) == /\ test(Last(paragraphs[k].res), res)
                   /\ HorizontalOk(Last(paragraphs[k].res), res)
    IN  /\ \A k \in 1..Len(paragraphs) :
              JoinedAt(k) => (pass(k) /\ \A j \in 1..(k - 1) : ~ pass(j))
        /\ StartedNew => \A k \in 1..Len(paragraphs) : ~ pass(k)

\* C9 as stated: the vertical gap test that decides every placement is
\* (top - last.bottom) <= last.height * max_line_gap.
C9_GapScaledByLastHeight ==
    [][IsPlaceStep => DecidedBy(GapTestLastHeight)]_vars

\* C9 amended: the vertical gap test that decides every placement is
\* (top - last.bottom) <= fragment.height * max_line_gap, the tolerance scaled by
\* the height of the fragment being placed, not of the paragraph's last fragment.
C9_GapScaledByOwnHeight ==
    [][IsPlaceStep => DecidedBy(GapTestOwnHeight)]_vars

\* A fragment has joined a paragraph whose last fragment had another height, with
\* a gap the two scalings judge differently.
C9_Witness ==
    /\ pc = "done"
    /\ Len(ret) = 1
    /\ Len(ret[1].res) = 2
    /\ ret[1].res[1].location.height # ret[1].res[2].location.height
    /\ ~ GapTestLastHeight(ret[1].res[1], ret[1].res[2])
    /\ GapTestOwnHeight(ret[1].res[1], ret[1].res[2])

Min(S) == CHOOSE m \in S : \A n \in S : m <= n

KeyOrdered(s) ==
    \A i, j \in 1..Len(s) :
        i < j => \/ s[i].location.top < s[j].location.top
                 \/ /\ s[i].location.top = s[j].location.top
                    /\ s[i].location.left <= s[j].location.left

FirstFitStep ==
    LET res == sorted_results[idx]
        open == { k \in 1..Len(paragraphs) : Accepts(paragraphs[k], res) }
    IN  /\ KeyOrdered(sorted_results)
        /\ IF open = {}
           THEN paragraphs' = Append(paragraphs, [res |-> <<res>>])
           ELSE paragraphs' =
                  [paragraphs EXCEPT ![Min(open)].res = Append(@, res)]

ReturnsInCreationOrder ==
    /\ Len(ret') = Len(paragraphs)
    /\ \A k \in 1..Len(paragraphs) : ret'[k].res = paragraphs[k].res

\* C10: fragments are taken in (top, left) order; each is appended to the
\* earliest-created paragraph whose last fragment passes both tests, a new
\* paragraph is appended at the end only when none passes, and the paragraphs are
\* returned in the order of their creation.
C10_FirstFit ==
    [][ /\ IsPlaceStep => FirstFitStep
        /\ (pc = "loop" /\ pc' = "done") => ReturnsInCreationOrder ]_vars

\* The third fragment joined the first paragraph although the second, created
\* later, accepted it too.
C10_Witness ==
    /\ pc = "done"
    /\ Len(sorted_results) = 3
    /\ Len(ret) = 2
    /\ ret[1].res = <<sorted_results[1], sorted_results[3]>>
    /\ ret[2].res = <<sorted_results[2]>>
    /\ Accepts([res |-> <<sorted_results[1]>>], sorted_results[3])
    /\ Accepts([res |-> <<sorted_results[2]>>], sorted_results[3])

-----------------------------------------------------------------------------
(* color_process: inputs                                                   *)

\* Largest side of the uniformly coloured images.
MaxUniformDim == 4

\* Sides of the images with arbitrary pixels.
SmallDims == {1, 2}

Palette == { <<100, 100, 100>>, <<140, 100, 100>>, <<60, 100, 100>>, <<255, 255, 255>> }
UniformColors == { <<10, 20, 30>>, <<200, 200, 200>> }
BgColors == { <<0, 0, 0>>, <<100, 100, 100>>, <<125, 100, 100>>, <<255, 255, 255>> }

Coords(w, h) == (0..(w - 1)) \X (0..(h - 1))

\* A decoded RGB image: px[<<x, y>>] is img_array[y, x].
ArbitraryImages ==
    UNION { { [width |-> w, height |-> h, px |-> f] : f \in [Coords(w, h) -> Palette] } :
              w \in SmallDims, h \in SmallDims }

UniformImages ==
    { [width |-> w, height |-> h, px |-> [c \in Coords(w, h) |-> col]] :
        w \in 1..MaxUniformDim, h \in 1..MaxUniformDim, col \in UniformColors }

Images == ArbitraryImages \cup UniformImages

\* Rectangles around an image: inside it, across its edges, outside it on each
\* side, and of zero width or height.
Locations(img) ==
    { [left |-> l, top |-> t, width |-> w, height |-> h] :
        l \in -1..img.width, t \in -1..img.height,
        w \in 0..img.width, h \in 0..img.height }

\* A location without its width field.
LocationNoWidth == [left |-> 0, top |-> 0, height |-> 1]

-----------------------------------------------------------------------------
(* color_process: the functions                                            *)

\* bg_color=None
NoColor == <<>>

White == <<255, 255, 255>>
Black == <<0, 0, 0>>

MaxOf(a, b) == IF a >= b THEN a ELSE b
MinOf(a, b) == IF a <= b THEN a ELSE b

\* The k-th smallest of a non-empty sequence of numbers.
Kth(vals, k) ==
    CHOOSE v \in { vals[i] : i \in 1..Len(vals) } :
        /\ Cardinality({ i \in 1..Len(vals) : vals[i] < v }) < k
        /\ k <= Cardinality({ i \in 1..Len(vals) : vals[i] <= v })

\* The middle element is taken as it is, two middle elements are added up.
Median_NoHalving(vals) ==
    LET n == Len(vals)
    IN  IF n % 2 = 1 THEN Kth(vals, (n + 1) \div 2)
        ELSE Kth(vals, n \div 2) + Kth(vals, n \div 2 + 1)

\* int(np.median(...)): the middle element, or the mean of the two middle
\* elements cut to an integer (the values are never negative).
Median(vals) ==
    LET n == Len(vals)
    IN  IF n % 2 = 1 THEN Kth(vals, (n + 1) \div 2)
        ELSE (Kth(vals, n \div 2) + Kth(vals, n \div 2 + 1)) \div 2

Channel(pixels, c) == [i \in 1..Len(pixels) |-> pixels[i][c]]

\* np.median(..., axis=0) cast to int, channel by channel
MedianColor(pixels) ==
    <<Median(Channel(pixels, 1)), Median(Channel(pixels, 2)), Median(Channel(pixels, 3))>>

RECURSIVE SumSeq(_)
SumSeq(vals) == IF vals = <<>> THEN 0 ELSE Head(vals) + SumSeq(Tail(vals))

\* int(np.mean(...)) channel by channel
MeanColor(pixels) ==
    << SumSeq(Channel(pixels, 1)) \div Len(pixels),
       SumSeq(Channel(pixels, 2)) \div Len(pixels),
       SumSeq(Channel(pixels, 3)) \div Len(pixels) >>

\* The square of color_distance, the Euclidean distance of two colours.
Dist2(c1, c2) ==
    (c1[1] - c2[1]) * (c1[1] - c2[1]) + (c1[2] - c2[2]) * (c1[2] - c2[2])
        + (c1[3] - c2[3]) * (c1[3] - c2[3])

\* int(location[...]) raises KeyError when a field is missing
LocationOk(loc) == DOMAIN loc = Fields

\* lines 21-24 and 95-98: left and top are clamped first, right and bottom are
\* then computed from the clamped left and top.
Clip(img, loc) ==
    LET l == MaxOf(0, loc.left)
        t == MaxOf(0, loc.top)
    IN  [left |-> l, top |-> t,
         right |-> MinOf(img.width, l + loc.width),
         bottom |-> MinOf(img.height, t + loc.height)]

\* img_array[top:bottom, left:right], row by row
Region(img, clip) ==
    LET w == clip.right - clip.left
        h == clip.bottom - clip.top
    IN  [i \in 1..(w * h) |->
            img.px[<<clip.left + ((i - 1) % w), clip.top + ((i - 1) \div w)>>]]

sample_margin == 2

\* lines 40-53, from the clamped left and top and the width and height given
SamplePoints(left, top, width, height) ==
    << <<left + sample_margin, top + sample_margin>>,
       <<left + width \div 2, top + sample_margin>>,
       <<left + width - sample_margin, top + sample_margin>>,
       <<left + sample_margin, top + height - sample_margin>>,
       <<left + width \div 2, top + height - sample_margin>>,
       <<left + width - sample_margin, top + height - sample_margin>>,
       <<left + sample_margin, top + height \div 2>>,
       <<left + width - sample_margin, top + height \div 2>> >>

InImage(img, p) == 0 <= p[1] /\ p[1] < img.width /\ 0 <= p[2] /\ p[2] < img.height

\* lines 55-58
BackgroundSamples(img, points) ==
    LET kept == SelectSeq(points, LAMBDA p : InImage(img, p))
    IN  [i \in 1..Len(kept) |-> img.px[kept[i]]]

\* lines 11-73; the result carries the line of the return statement taken
get_text_background_color(img, loc) ==
    IF ~ LocationOk(loc) THEN [color |-> White, line |-> 73]
    ELSE
      LET clip == Clip(img, loc)
      IN  IF clip.right <= clip.left \/ clip.bottom <= clip.top
          THEN [color |-> White, line |-> 27]
          ELSE
            LET samples ==
                  BackgroundSamples(img,
                      SamplePoints(clip.left, clip.top, loc.width, loc.height))
            IN  IF samples = <<>>
                THEN [color |-> MeanColor(Region(img, clip)), line |-> 63]
                ELSE [color |-> MedianColor(samples), line |-> 69]

\* lines 166-175: brightness = (299 R + 587 G + 114 B) / 1000 > 128
get_contrasting_color(bg) ==
    IF bg[1] * 299 + bg[2] * 587 + bg[3] * 114 > 128 * 1000 THEN Black ELSE White

\* The median of the region is returned when it is farther than 30 from the
\* background.
get_text_color_fallback_Far30(text_region, bg) ==
    LET median_color == MedianColor(text_region)
    IN  IF Dist2(median_color, bg) > 30 * 30
        THEN [color |-> median_color, line |-> 160]
        ELSE [color |-> get_contrasting_color(bg), line |-> 163]

\* lines 149-163
get_text_color_fallback(text_region, bg) ==
    LET median_color == MedianColor(text_region)
    IN  IF Dist2(median_color, bg) > 20 * 20
        THEN [color |-> median_color, line |-> 160]
        ELSE [color |-> get_contrasting_color(bg), line |-> 163]

\* The median of the text pixels is returned unchecked.
FinalCheck_Skipped(text_color, bg) == [color |-> text_color, line |-> 142]

\* lines 138-142
FinalCheck(text_color, bg) ==
    IF Dist2(text_color, bg) < 10 * 10
    THEN [color |-> get_contrasting_color(bg), line |-> 140]
    ELSE [color |-> text_color, line |-> 142]

\* lines 110-111: the background colour the text pixels are compared with
EffectiveBackground(img, loc, bg) ==
    IF bg = NoColor THEN get_text_background_color(img, loc).color ELSE bg

\* lines 85-146, with color_threshold at its default
color_threshold == 30

get_text_color(img, loc, bg_arg) ==
    IF ~ LocationOk(loc) THEN [color |-> Black, line |-> 146]
    ELSE
      LET clip == Clip(img, loc)
      IN  IF clip.right <= clip.left \/ clip.bottom <= clip.top
          THEN [color |-> Black, line |-> 101]
          ELSE
            LET bg == EffectiveBackground(img, loc, bg_arg)
                text_region == Region(img, clip)
                text_pixels ==
                    SelectSeq(text_region,
                        LAMBDA p : Dist2(p, bg) > color_threshold * color_threshold)
            IN  IF text_pixels = <<>>
                THEN get_text_color_fallback(text_region, bg)
                ELSE FinalCheck(MedianColor(text_pixels), bg)

InitColor ==
    /\ image \in Images
    /\ location \in Locations(image) \cup {LocationNoWidth}
    /\ bg_color = NoColor
    /\ color_op = "none"
    /\ color_ret = None
    /\ MergeIdle
    /\ TranslateIdle

CallBackground ==
    /\ color_op = "none"
    /\ color_op' = "background"
    /\ color_ret' = get_text_background_color(image, location)
    /\ UNCHANGED <<image, location, bg_color, mergeVars, translateVars>>

CallTextColor ==
    /\ color_op = "none"
    /\ \E b \in BgColors \cup {NoColor} :
          /\ bg_color' = b
          /\ color_ret' = get_text_color(image, location, b)
    /\ color_op' = "text"
    /\ UNCHANGED <<image, location, mergeVars, translateVars>>

NextColor == CallBackground \/ CallTextColor

SpecColor == InitColor /\ [][NextColor]_vars

-----------------------------------------------------------------------------
(* Properties of color_process, checked under SpecColor                    *)

\* The background colour B of a call of get_text_color: the one supplied, or the
\* one computed for the same rectangle.
B == IF bg_color # NoColor THEN bg_color
     ELSE get_text_background_color(image, location).color

\* C4 as stated: whatever the return path, the colour get_text_color returns is
\* at Euclidean distance 10 or more from B.
C4_AlwaysFarFromBackground ==
    color_op = "text" => Dist2(color_ret.color, B) >= 10 * 10

\* C4 amended: the colour returned by the median of the collected pixels, by the
\* fallback estimate or as the contrasting colour is at Euclidean distance 10 or
\* more from B; the empty-region default and the exception default are (0,0,0)
\* whatever B is, so they are nearer than 10 when B is within 10 of black.
C4_FarFromBackgroundUnlessDefault ==
    color_op = "text" =>
        /\ color_ret.line \in {140, 142, 160, 163} =>
              Dist2(color_ret.color, B) >= 10 * 10
        /\ color_ret.line \in {101, 107, 146} => color_ret.color = Black

\* The median of the collected pixels was nearer than 10 to B and the
\* contrasting colour was returned in its place.
C4_Witness ==
    /\ color_op = "text"
    /\ color_ret.line = 140
    /\ bg_color # NoColor

OnFallbackPath == color_op = "text" /\ color_ret.line \in {160, 163}

RegionMedian == MedianColor(Region(image, Clip(image, location)))

IntersectionEmpty(img, loc) ==
    \/ MaxOf(0, loc.left) >= MinOf(img.width, loc.left + loc.width)
    \/ MaxOf(0, loc.top) >= MinOf(img.height, loc.top + loc.height)

\* C6: get_text_background_color returns (255,255,255) whenever the rectangle's
\* intersection with the image is empty, whatever the pixels are.
C6_EmptyIntersectionWhite ==
    ( /\ color_op = "background"
      /\ LocationOk(location)
      /\ IntersectionEmpty(image, location) ) =>
        color_ret.color = White

IsUniform(img) == \A p, q \in DOMAIN img.px : img.px[p] = img.px[q]

InBounds(img, loc) ==
    /\ LocationOk(loc)
    /\ loc.left >= 0 /\ loc.top >= 0
    /\ loc.width > 0 /\ loc.height > 0
    /\ loc.left + loc.width <= img.width
    /\ loc.top + loc.height <= img.height

\* C7: on an image whose pixels all have the colour C, get_text_background_color
\* returns C for every rectangle inside the image with positive width and
\* height, by the median of the samples and by the mean of the region alike.
C7_UniformImageColor ==
    ( /\ color_op = "background"
      /\ IsUniform(image)
      /\ InBounds(image, location) ) =>
        color_ret.color = image.px[<<0, 0>>]

\* No sample point survived and the mean of the region was returned.
C7_Witness ==
    /\ color_op = "background"
    /\ IsUniform(image)
    /\ InBounds(image, location)
    /\ color_ret.line = 63
    /\ color_ret.color = <<10, 20, 30>>

-----------------------------------------------------------------------------
(* translate_api.parallel_translate                                        *)

MaxParas == 3
MaxWorkers == 2

\* para['words'] of the paragraphs handed over
ParaWords == {"a\n", "b\n"}

Pending == "pending"

\* What deepseek_translate returns for a text when the request succeeds.
deepseek_translate(text) == "translated: " \o text

\* str(e) of the exception deepseek_translate raises
ErrorTexts == {"timeout"}

\* lines 151-158: the translation, or the message built in the except branch
\* (the literal of line 157 is written here in ASCII)
translate_single(para, raised, e) ==
    IF raised THEN "translate failed: " \o e ELSE deepseek_translate(para.words)

\* The futures are yielded from the last submitted to the first.
NextResult_Reversed(collected, n) == n - collected

\* The result iterator of executor.map yields the futures in submission order:
\* the one after those already collected.
NextResult(collected, n) == collected + 1

InitTranslate ==
    /\ tr_paragraphs \in SeqsUpTo({ [words |-> w] : w \in ParaWords }, MaxParas)
    /\ max_workers \in 1..MaxWorkers
    /\ futures = <<>>
    /\ queue = <<>>
    /\ worker = [w \in 1..max_workers |-> 0]
    /\ failed = {}
    /\ translations = <<>>
    /\ tr_pc = "submit"
    /\ MergeIdle
    /\ ColorIdle

\* lines 160-165: executor.map submits one task per paragraph, in order
Submit ==
    /\ tr_pc = "submit"
    /\ futures' = [i \in 1..Len(tr_paragraphs) |-> Pending]
    /\ queue' = [i \in 1..Len(tr_paragraphs) |-> i]
    /\ tr_pc' = "collect"
    /\ UNCHANGED <<tr_paragraphs, max_workers, worker, failed, translations,
                   mergeVars, colorVars>>

\* An idle worker thread takes the oldest task of the queue.
WorkerTake(w) ==
    /\ worker[w] = 0
    /\ queue # <<>>
    /\ worker' = [worker EXCEPT ![w] = Head(queue)]
    /\ queue' = Tail(queue)
    /\ UNCHANGED <<tr_paragraphs, max_workers, futures, failed, translations, tr_pc,
                   mergeVars, colorVars>>

\* lines 153-155: the request succeeds and the future gets the translation
WorkerFinishOk(w) ==
    /\ worker[w] # 0
    /\ futures' = [futures EXCEPT
                     ![worker[w]] = translate_single(tr_paragraphs[worker[w]], FALSE, "")]
    /\ worker' = [worker EXCEPT ![w] = 0]
    /\ UNCHANGED <<tr_paragraphs, max_workers, queue, failed, translations, tr_pc,
                   mergeVars, colorVars>>

\* lines 156-158: the request raises and the future gets the error message
WorkerFinishError(w) ==
    /\ worker[w] # 0
    /\ \E e \in ErrorTexts :
          futures' = [futures EXCEPT
                        ![worker[w]] = translate_single(tr_paragraphs[worker[w]], TRUE, e)]
    /\ failed' = failed \cup {worker[w]}
    /\ worker' = [worker EXCEPT ![w] = 0]
    /\ UNCHANGED <<tr_paragraphs, max_workers, queue, translations, tr_pc,
                   mergeVars, colorVars>>

\* line 162: list() takes the next future's result once that future is done
Collect ==
    /\ tr_pc = "collect"
    /\ Len(translations) < Len(futures)
    /\ LET i == NextResult(Len(translations), Len(futures))
       IN  /\ futures[i] # Pending
           /\ translations' = Append(translations, futures[i])
    /\ UNCHANGED <<tr_paragraphs, max_workers, futures, queue, worker, failed, tr_pc,
                   mergeVars, colorVars>>

\* lines 160 and 166: the with block ends once the workers are done, and the list
\* is returned
ReturnTranslations ==
    /\ tr_pc = "collect"
    /\ Len(translations) = Len(futures)
    /\ \A w \in 1..max_workers : worker[w] = 0
    /\ tr_pc' = "done"
    /\ UNCHANGED <<tr_paragraphs, max_workers, futures, queue, worker, failed,
                   translations, mergeVars, colorVars>>

NextTranslate ==
    \/ Submit
    \/ \E w \in 1..max_workers : WorkerTake(w)
    \/ \E w \in 1..max_workers : WorkerFinishOk(w)
    \/ \E w \in 1..max_workers : WorkerFinishError(w)
    \/ Collect
    \/ ReturnTranslations

SpecTranslate == InitTranslate /\ [][NextTranslate]_vars

-----------------------------------------------------------------------------
(* The three parts together: one of them is exercised in a behaviour.      *)

Init == InitMerge \/ InitColor \/ InitTranslate

Next == NextMerge \/ NextColor \/ NextTranslate

Spec == Init /\ [][Next]_vars

-----------------------------------------------------------------------------
(* Properties of parallel_translate, checked under SpecTranslate           *)

\* C8: whatever the interleaving, the call goes on to return (it neither raises
\* nor blocks), and the list returned has one element per paragraph, element i
\* being the error message when the translation of paragraph i failed and the
\* translation of paragraph i otherwise.
C8_OrderedResults ==
    /\ tr_pc \in {"submit", "collect"} => ENABLED NextTranslate
    /\ tr_pc = "done" =>
          /\ Len(translations) = Len(tr_paragraphs)
          /\ \A i \in 1..Len(tr_paragraphs) :
                translations[i] =
                    IF i \in failed
                    THEN "translate failed: timeout"
                    ELSE deepseek_translate(tr_paragraphs[i].words)

\* Three different outcomes were returned in order although the second
\* translation failed.
C8_Witness ==
    /\ tr_pc = "done"
    /\ Len(tr_paragraphs) = 3
    /\ max_workers = 2
    /\ failed = {2}
    /\ tr_paragraphs[1] # tr_paragraphs[3]

====
